---- MODULE Spec2Model ----
(***************************************************************************)
(* Model of the tofuboi transcript bot:                                    *)
(*   - split_safe_utf8            (src/src/formatter.rs)                   *)
(*   - select_fallback_language   (src/src/main.rs)                        *)
(*   - handle_message and send_transcript (src/src/main.rs)                *)
(*                                                                         *)
(* A Rust string is modelled as the sequence of its UTF-8 bytes.  A byte   *)
(* is a pair <<c, k>>: it is the k-th byte (k = 0 is the leading byte) of  *)
(* the encoding of character c.  Byte offsets are 0-based as in Rust; the  *)
(* byte at Rust offset i is str[i + 1].                                    *)
(***************************************************************************)
EXTENDS Integers, Sequences, FiniteSets, TLC

\* ------------------------------------------------------------------ bounds

\* Longest text handed to split_safe_utf8, in characters.
MaxChars == 4
\* Largest max_bytes handed to split_safe_utf8.
MaxBudget == 4
\* Longest list of language codes.
MaxLangs == 3
\* Longest transcript entry, in characters.
MaxFragChars == 2
\* Most entries of a transcript handed to send_transcript directly.
MaxFragments == 3
\* Most entries of a transcript fetched while handling a chat message.
MaxFetched == 2
\* Longest incoming chat text, in characters.
MaxMsgLen == 3
\* The per-message byte budget of send_transcript (4000 in the source),
\* scaled down so that the bounded entries straddle it.
MAX_CHUNK_SIZE == 3

\* ------------------------------------------------------------- UTF-8 text

\* Characters of the inputs: one, two and three byte encodings.
Chars == {"a", "e'", "shi"}
\* Characters of transcript entries.
FragChars == {"a", "shi"}

\* char::len_utf8
CharLen(c) == CASE c = "e'" -> 2 [] c = "shi" -> 3 [] OTHER -> 1

\* The UTF-8 bytes of one character.
CharBytes(c) == [k \in 1..CharLen(c) |-> <<c, k - 1>>]

\* The UTF-8 bytes of a sequence of characters.
RECURSIVE Encode(_)
Encode(cs) == IF cs = <<>> THEN <<>> ELSE CharBytes(Head(cs)) \o Encode(Tail(cs))

\* All sequences over S of length at most n.
SeqsUpTo(S, n) == UNION {[1..k -> S] : k \in 0..n}

\* The input texts: every string of at most MaxChars characters.
Texts == {Encode(cs) : cs \in SeqsUpTo(Chars, MaxChars)}

\* The decoded texts of transcript entries, the empty text among them.
FragTexts == {Encode(cs) : cs \in SeqsUpTo(FragChars, MaxFragChars)}

\* Concatenation of a sequence of strings.
RECURSIVE Concat(_)
Concat(ss) == IF ss = <<>> THEN <<>> ELSE Head(ss) \o Concat(Tail(ss))

\* Mutant: every offset within the string counts as a boundary.
is_char_boundary_any(str, i) == i <= Len(str)

\* str::is_char_boundary: offset 0 and offset len are boundaries, an offset
\* past the end is not, any other offset is one iff its byte is not a
\* continuation byte.
is_char_boundary(str, i) ==
    \/ i = 0
    \/ i = Len(str)
    \/ (i < Len(str) /\ str[i + 1][2] = 0)

\* std::str::from_utf8 succeeds: every leading byte is followed by all the
\* continuation bytes of its character, and no continuation byte stands alone.
from_utf8_ok(bs) ==
    \A i \in 1..Len(bs) :
        IF bs[i][2] = 0
        THEN /\ i + CharLen(bs[i][1]) - 1 <= Len(bs)
             /\ \A j \in 1..(CharLen(bs[i][1]) - 1) : bs[i + j] = <<bs[i][1], j>>
        ELSE /\ i > 1
             /\ bs[i - 1] = <<bs[i][1], bs[i][2] - 1>>

\* --------------------------------------------------------------- the state

VARIABLES
    \* split_safe_utf8: its arguments, locals, position and return value
    s, max_bytes, chunks, start, end, spc, ret,
    \* select_fallback_language: its arguments and the language it returned
    available_langs, preferred, fallback_lang,
    \* handle_message and send_transcript
    incoming,        \* the update handed to the handler, <<msg>>; <<>> once its
                     \* text is parsed into requested_lang (and when there is none)
    pc,              \* the handler's position
    requested_lang,  \* handle_message: requested_lang
    fetches,         \* the calls of fetch_transcript: [lang, outcome]
    selections,      \* the number of calls of select_fallback_language
    transcript,      \* send_transcript: the entries' decoded texts
    idx,             \* send_transcript: the number of entries taken by the for loop
    text,            \* send_transcript: text
    current_chunk,   \* send_transcript: current_chunk
    byte_chunks,     \* send_transcript: what text.as_bytes().chunks(..) still yields
    sent,            \* the calls of bot.send_message: [kind, text, ok, at]
    result           \* what handle_message returned: "none", "Ok" or "Err"

split_vars == <<s, max_bytes, chunks, start, end, spc, ret>>
select_vars == <<available_langs, preferred, fallback_lang>>
send_vars == <<transcript, idx, text, current_chunk, byte_chunks>>
handler_vars == <<incoming, pc, requested_lang, fetches, selections, send_vars, sent, result>>
vars == <<split_vars, select_vars, handler_vars>>

\* -------------------------------------------------------- split_safe_utf8

ERR_ZERO == "max_bytes must be greater than zero"
ERR_SMALL == "max_bytes is too small to fit the next character"

\* A chunk is the slice &s[lo..hi]; its text:
ChunkText(c) == SubSeq(s, c.lo + 1, c.hi)

SplitIdle ==
    /\ s = <<>> /\ max_bytes = 0 /\ chunks = <<>> /\ start = 0 /\ end = 0
    /\ spc = "idle" /\ ret = "none"

\* Mutant: the zero budget is not rejected.
SplitEntry_unchecked ==
    /\ spc = "entry"
    /\ spc' = "loop"
    /\ UNCHANGED <<s, max_bytes, chunks, start, end, ret, select_vars, handler_vars>>

\* if max_bytes == 0 { return Err(..) }; let mut chunks = Vec::new(); let mut start = 0;
SplitEntry ==
    /\ spc = "entry"
    /\ IF max_bytes = 0
       THEN /\ ret' = ERR_ZERO
            /\ spc' = "done"
       ELSE /\ spc' = "loop"
            /\ UNCHANGED ret
    /\ UNCHANGED <<s, max_bytes, chunks, start, end, select_vars, handler_vars>>

\* while start < s.len(), remaining <= max_bytes: push the rest and break.
SplitRest ==
    /\ spc = "loop"
    /\ start < Len(s)
    /\ Len(s) - start <= max_bytes
    /\ chunks' = Append(chunks, [lo |-> start, hi |-> Len(s)])
    /\ ret' = "Ok"
    /\ spc' = "done"
    /\ UNCHANGED <<s, max_bytes, start, end, select_vars, handler_vars>>

\* Mutant: the candidate end is one byte short.
SplitCandidate_short ==
    /\ spc = "loop"
    /\ start < Len(s)
    /\ Len(s) - start > max_bytes
    /\ end' = start + max_bytes - 1
    /\ spc' = "walk"
    /\ UNCHANGED <<s, max_bytes, chunks, start, ret, select_vars, handler_vars>>

\* while start < s.len(), remaining > max_bytes: let mut end = start + max_bytes;
SplitCandidate ==
    /\ spc = "loop"
    /\ start < Len(s)
    /\ Len(s) - start > max_bytes
    /\ end' = start + max_bytes
    /\ spc' = "walk"
    /\ UNCHANGED <<s, max_bytes, chunks, start, ret, select_vars, handler_vars>>

\* while !s.is_char_boundary(end) { end -= 1; }
SplitWalkBack ==
    /\ spc = "walk"
    /\ ~is_char_boundary(s, end)
    /\ end' = end - 1
    /\ UNCHANGED <<s, max_bytes, chunks, start, spc, ret, select_vars, handler_vars>>

\* Mutant: with the walk back at start, the loop goes round again.
SplitTooSmall_again ==
    /\ spc = "walk"
    /\ is_char_boundary(s, end)
    /\ end = start
    /\ spc' = "loop"
    /\ UNCHANGED <<s, max_bytes, chunks, start, end, ret, select_vars, handler_vars>>

\* if end == start { return Err(..) }
SplitTooSmall ==
    /\ spc = "walk"
    /\ is_char_boundary(s, end)
    /\ end = start
    /\ ret' = ERR_SMALL
    /\ spc' = "done"
    /\ UNCHANGED <<s, max_bytes, chunks, start, end, select_vars, handler_vars>>

\* Mutant: the next chunk starts at the candidate end, not at the boundary found.
SplitPush_skips ==
    /\ spc = "walk"
    /\ is_char_boundary(s, end)
    /\ end # start
    /\ chunks' = Append(chunks, [lo |-> start, hi |-> end])
    /\ start' = start + max_bytes
    /\ spc' = "loop"
    /\ UNCHANGED <<s, max_bytes, end, ret, select_vars, handler_vars>>

\* chunks.push(&s[start..end]); start = end;
SplitPush ==
    /\ spc = "walk"
    /\ is_char_boundary(s, end)
    /\ end # start
    /\ chunks' = Append(chunks, [lo |-> start, hi |-> end])
    /\ start' = end
    /\ spc' = "loop"
    /\ UNCHANGED <<s, max_bytes, end, ret, select_vars, handler_vars>>

\* the loop condition fails: Ok(chunks)
SplitReturn ==
    /\ spc = "loop"
    /\ start >= Len(s)
    /\ ret' = "Ok"
    /\ spc' = "done"
    /\ UNCHANGED <<s, max_bytes, chunks, start, end, select_vars, handler_vars>>

\* The inner while loop: the first boundary at or below offset e.
RECURSIVE walk_back(_, _)
walk_back(str, e) == IF is_char_boundary(str, e) THEN e ELSE walk_back(str, e - 1)

\* The outer while loop from offset st on, acc being the chunks pushed so far:
\* the value split_safe_utf8 returns, its chunks given by their texts.
RECURSIVE split_loop(_, _, _, _)
split_loop(str, b, st, acc) ==
    IF st >= Len(str) THEN [ret |-> "Ok", chunks |-> acc]
    ELSE IF Len(str) - st <= b
    THEN [ret |-> "Ok", chunks |-> Append(acc, SubSeq(str, st + 1, Len(str)))]
    ELSE IF walk_back(str, st + b) = st THEN [ret |-> ERR_SMALL, chunks |-> <<>>]
    ELSE split_loop(str, b, walk_back(str, st + b),
                    Append(acc, SubSeq(str, st + 1, walk_back(str, st + b))))

\* split_safe_utf8 as a function of its arguments.
split_safe_utf8(str, b) ==
    IF b = 0 THEN [ret |-> ERR_ZERO, chunks |-> <<>>] ELSE split_loop(str, b, 0, <<>>)

\* ------------------------------------------------ select_fallback_language

Langs == {"en", "es", "zh-HK", "zh-TW"}
LangLists == SeqsUpTo(Langs, MaxLangs)

\* str::starts_with
starts_with(l, p) == Len(l) >= Len(p) /\ SubSeq(l, 1, Len(p)) = p

\* slice::contains
contains(list, x) == \E i \in 1..Len(list) : list[i] = x

\* Iterator::find: the index of the first element starting with "zh", 0 if none.
RECURSIVE find_zh(_, _)
find_zh(list, i) ==
    IF i > Len(list) THEN 0
    ELSE IF starts_with(list[i], "zh") THEN i
    ELSE find_zh(list, i + 1)

\* Mutant: the available list is scanned for a preferred code, in its order.
RECURSIVE select_by_availability(_, _, _)
select_by_availability(avail, pref, i) ==
    IF i <= Len(avail)
    THEN IF contains(pref, avail[i]) THEN avail[i]
         ELSE select_by_availability(avail, pref, i + 1)
    ELSE IF find_zh(avail, 1) # 0 THEN avail[find_zh(avail, 1)]
    ELSE IF avail # <<>> THEN avail[1]
    ELSE "en"

\* The for loop over preferred from its i-th element on, and what follows it.
RECURSIVE select_from(_, _, _)
select_from(avail, pref, i) ==
    IF i <= Len(pref)
    THEN IF contains(avail, pref[i]) THEN pref[i] ELSE select_from(avail, pref, i + 1)
    ELSE IF find_zh(avail, 1) # 0 THEN avail[find_zh(avail, 1)]
    ELSE IF avail # <<>> THEN avail[1]
    ELSE "en"

select_fallback_language(avail, pref) == select_from(avail, pref, 1)

SelectIdle == available_langs = <<>> /\ preferred = <<>> /\ fallback_lang = "none"

\* One call of select_fallback_language on the drawn arguments.
Select ==
    /\ pc = "select"
    /\ fallback_lang' = select_fallback_language(available_langs, preferred)
    /\ selections' = selections + 1
    /\ pc' = "done"
    /\ UNCHANGED <<available_langs, preferred, split_vars>>
    /\ UNCHANGED <<incoming, requested_lang, fetches, send_vars, sent, result>>

\* ---------------------------------------------------------- handle_message

\* The characters of an incoming chat text: whitespace and one other.
MsgChars == {" ", "v"}
MsgTexts == SeqsUpTo(MsgChars, MaxMsgLen)
\* A message without text (a photo, a sticker), and the messages with one.
NoText == [has_text |-> FALSE, text |-> <<>>]
Messages == {NoText} \cup {[has_text |-> TRUE, text |-> t] : t \in MsgTexts}

\* The text as a string.
RECURSIVE Str(_)
Str(cs) == IF cs = <<>> THEN "" ELSE Head(cs) \o Str(Tail(cs))

\* str::split_whitespace, collected: the maximal runs of non-whitespace
\* characters, in order.  word is the run being read.
RECURSIVE split_from(_, _)
split_from(cs, word) ==
    IF cs = <<>> THEN (IF word = <<>> THEN <<>> ELSE <<Str(word)>>)
    ELSE IF Head(cs) = " "
         THEN (IF word = <<>> THEN <<>> ELSE <<Str(word)>>) \o split_from(Tail(cs), <<>>)
         ELSE split_from(Tail(cs), Append(word, Head(cs)))

\* Mutant: a text that is not empty is taken as one part, whitespace and all.
split_whitespace_whole(cs) == IF cs = <<>> THEN <<>> ELSE <<Str(cs)>>

split_whitespace(cs) == split_from(cs, <<>>)

\* The preference list handle_message passes to select_fallback_language.
PREFERRED == <<"en", "zh-HK", "zh-TW">>

\* The transcripts fetch_transcript may return to handle_message.
Fetched == SeqsUpTo(FragTexts, MaxFetched)

\* bot.send_message(..).await: one more call of the sender; `at` records the
\* position of the handler that made the call.
Sent(kind, body, ok) ==
    sent' = Append(sent, [kind |-> kind, text |-> body, ok |-> ok, at |-> pc])

\* What `?` makes of the outcome of a send that ends the handler.
Returned(ok) == IF ok THEN "Ok" ELSE "Err"

HandlerIdle ==
    /\ incoming = <<>> /\ pc = "idle" /\ requested_lang = "none" /\ fetches = <<>>
    /\ selections = 0 /\ transcript = <<>> /\ idx = 0 /\ text = <<>>
    /\ current_chunk = <<>> /\ byte_chunks = <<>> /\ sent = <<>> /\ result = "none"

\* msg.text() is None: the else branch sends its notice, then Ok(()).
HandleNoText ==
    /\ pc = "start"
    /\ ~incoming[1].has_text
    /\ \E ok \in BOOLEAN :
        /\ Sent("no_text", <<>>, ok)
        /\ result' = Returned(ok)
    /\ pc' = "done"
    /\ UNCHANGED <<incoming, requested_lang, fetches, selections, send_vars, split_vars, select_vars>>

\* parts.is_empty(): send the notice and return Ok(()).
HandleNoVideoId ==
    /\ pc = "start"
    /\ incoming[1].has_text
    /\ split_whitespace(incoming[1].text) = <<>>
    /\ \E ok \in BOOLEAN :
        /\ Sent("no_video_id", <<>>, ok)
        /\ result' = Returned(ok)
    /\ pc' = "done"
    /\ UNCHANGED <<incoming, requested_lang, fetches, selections, send_vars, split_vars, select_vars>>

\* let requested_lang = if parts.len() > 1 { parts[1] } else { "en" };
HandleParse ==
    /\ pc = "start"
    /\ incoming[1].has_text
    /\ LET parts == split_whitespace(incoming[1].text) IN
        /\ parts # <<>>
        /\ requested_lang' = IF Len(parts) > 1 THEN parts[2] ELSE "en"
    /\ incoming' = <<>>
    /\ pc' = "fetch"
    /\ UNCHANGED <<fetches, selections, send_vars, sent, result, split_vars, select_vars>>

\* The first fetch_transcript returns Ok(transcript): send_transcript is called.
FetchOk ==
    /\ pc = "fetch"
    /\ fetches' = Append(fetches, [lang |-> requested_lang, outcome |-> "Ok"])
    /\ \E t \in Fetched : transcript' = t
    /\ pc' = "send_transcript"
    /\ UNCHANGED <<incoming, requested_lang, selections, idx, text, current_chunk,
                   byte_chunks, sent, result, split_vars, select_vars>>

\* The first fetch_transcript fails with TranscriptNotAvailableLanguage:
\* the fallback language is selected and the notice about it is formatted.
FetchLanguageUnavailable ==
    /\ pc = "fetch"
    /\ fetches' = Append(fetches, [lang |-> requested_lang, outcome |-> "LanguageUnavailable"])
    /\ \E avail \in LangLists :
        /\ available_langs' = avail
        /\ fallback_lang' = select_fallback_language(avail, PREFERRED)
    /\ selections' = selections + 1
    /\ pc' = "info"
    /\ UNCHANGED <<incoming, requested_lang, preferred, send_vars, sent, result, split_vars>>

\* Mutant: a failure of the first fetch is swallowed.
FetchError_silent ==
    /\ pc = "fetch"
    /\ fetches' = Append(fetches, [lang |-> requested_lang, outcome |-> "Error"])
    /\ pc' = "done"
    /\ result' = "Ok"
    /\ UNCHANGED <<incoming, requested_lang, selections, send_vars, sent,
                   split_vars, select_vars>>

\* Mutant: any failure of the first fetch is retried.
FetchError_retried ==
    /\ pc = "fetch"
    /\ fetches' = Append(fetches, [lang |-> requested_lang, outcome |-> "Error"])
    /\ pc' = "retry"
    /\ UNCHANGED <<incoming, requested_lang, selections, send_vars, sent, result,
                   split_vars, select_vars>>

\* The first fetch_transcript fails with any other error.
FetchError ==
    /\ pc = "fetch"
    /\ fetches' = Append(fetches, [lang |-> requested_lang, outcome |-> "Error"])
    /\ pc' = "error"
    /\ UNCHANGED <<incoming, requested_lang, selections, send_vars, sent, result,
                   split_vars, select_vars>>

\* bot.send_message(msg.chat.id, info).await?
SendInfo ==
    /\ pc = "info"
    /\ \E ok \in BOOLEAN :
        /\ Sent("info", <<>>, ok)
        /\ pc' = IF ok THEN "retry" ELSE "done"
        /\ result' = IF ok THEN result ELSE "Err"
    /\ available_langs' = <<>>
    /\ UNCHANGED <<incoming, requested_lang, fetches, selections, send_vars,
                   preferred, fallback_lang, split_vars>>

\* The second fetch_transcript, with the fallback language, returns Ok(transcript).
RetryOk ==
    /\ pc = "retry"
    /\ fetches' = Append(fetches, [lang |-> fallback_lang, outcome |-> "Ok"])
    /\ \E t \in Fetched : transcript' = t
    /\ pc' = "send_transcript"
    /\ UNCHANGED <<incoming, requested_lang, selections, idx, text, current_chunk,
                   byte_chunks, sent, result, split_vars, select_vars>>

\* The second fetch_transcript fails, with any error.
RetryError ==
    /\ pc = "retry"
    /\ \E e \in {"LanguageUnavailable", "Error"} :
        fetches' = Append(fetches, [lang |-> fallback_lang, outcome |-> e])
    /\ pc' = "error"
    /\ UNCHANGED <<incoming, requested_lang, selections, send_vars, sent, result,
                   split_vars, select_vars>>

\* bot.send_message(msg.chat.id, format!("Error fetching transcript: {}", e)).await?
SendError ==
    /\ pc = "error"
    /\ \E ok \in BOOLEAN :
        /\ Sent("fetch_error", <<>>, ok)
        /\ result' = Returned(ok)
    /\ pc' = "done"
    /\ UNCHANGED <<incoming, requested_lang, fetches, selections, send_vars,
                   split_vars, select_vars>>

\* --------------------------------------------------------- send_transcript

\* current_chunk.push(' '): the separator is the one byte of a space.
SPACE == <<" ", 0>>

\* slice::chunks(n): consecutive pieces of n bytes, the last one maybe shorter.
RECURSIVE byte_chunks_of(_, _)
byte_chunks_of(bs, n) ==
    IF Len(bs) <= n THEN (IF bs = <<>> THEN <<>> ELSE <<bs>>)
    ELSE <<SubSeq(bs, 1, n)>> \o byte_chunks_of(SubSeq(bs, n + 1, Len(bs)), n)

\* if text.len() > MAX_CHUNK_SIZE
is_long(t) == Len(t) > MAX_CHUNK_SIZE

\* Mutant: the separator is not counted.
would_exceed_no_separator(cur, t) == Len(cur) + Len(t) > MAX_CHUNK_SIZE

\* if current_chunk.len() + text.len() + 1 > MAX_CHUNK_SIZE
would_exceed(cur, t) == Len(cur) + Len(t) + 1 > MAX_CHUNK_SIZE

\* Mutant: the text is pushed without the separator.
pushed_no_separator(cur, t) == cur \o t

\* Mutant: the separator is pushed before every text.
pushed_always_separator(cur, t) == Append(cur, SPACE) \o t

\* if !current_chunk.is_empty() { current_chunk.push(' ') }; current_chunk.push_str(&text)
pushed(cur, t) == (IF cur # <<>> THEN Append(cur, SPACE) ELSE cur) \o t

\* Mutant: a failed send is ignored and the loop goes on with the next entry.
Failed_goes_on ==
    /\ pc' = "loop"
    /\ UNCHANGED result

\* What the handler does once a send of send_transcript has failed: `?`
\* returns the error from send_transcript, and again from handle_message.
Failed ==
    /\ pc' = "done"
    /\ result' = "Err"

\* transcript.is_empty(): send the notice and return Ok(()).
SendEmptyNotice ==
    /\ pc = "send_transcript"
    /\ transcript = <<>>
    /\ \E ok \in BOOLEAN :
        /\ Sent("empty_transcript", <<>>, ok)
        /\ result' = Returned(ok)
    /\ pc' = "done"
    /\ UNCHANGED <<incoming, requested_lang, fetches, selections, send_vars,
                   split_vars, select_vars>>

\* let mut current_chunk = String::with_capacity(MAX_CHUNK_SIZE);
SendBegin ==
    /\ pc = "send_transcript"
    /\ transcript # <<>>
    /\ current_chunk' = <<>>
    /\ pc' = "loop"
    /\ UNCHANGED <<incoming, requested_lang, fetches, selections, transcript, idx, text,
                   byte_chunks, sent, result, split_vars, select_vars>>

\* for entry in transcript { let text = decode_html_entities(..)..; the
\* entries are modelled by their decoded texts.
NextEntry ==
    /\ pc = "loop"
    /\ idx < Len(transcript)
    /\ text' = transcript[idx + 1]
    /\ idx' = idx + 1
    /\ pc' = IF is_long(transcript[idx + 1]) THEN "long" ELSE "fit"
    /\ UNCHANGED <<incoming, requested_lang, fetches, selections, transcript,
                   current_chunk, byte_chunks, sent, result, split_vars, select_vars>>

\* The for loop has taken every entry.
EntriesDone ==
    /\ pc = "loop"
    /\ idx = Len(transcript)
    /\ pc' = "final"
    /\ UNCHANGED <<incoming, requested_lang, fetches, selections, send_vars, sent,
                   result, split_vars, select_vars>>

\* A long text, current_chunk not empty: send it, clear it.
LongFlush ==
    /\ pc = "long"
    /\ current_chunk # <<>>
    /\ \E ok \in BOOLEAN :
        /\ Sent("transcript", current_chunk, ok)
        /\ IF ok
           THEN /\ current_chunk' = <<>>
                /\ byte_chunks' = byte_chunks_of(text, MAX_CHUNK_SIZE)
                /\ pc' = "chunks"
                /\ UNCHANGED result
           ELSE /\ Failed
                /\ UNCHANGED <<current_chunk, byte_chunks>>
    /\ UNCHANGED <<incoming, requested_lang, fetches, selections, transcript, idx, text,
                   split_vars, select_vars>>

\* A long text, current_chunk empty: go on to its chunks.
LongNoFlush ==
    /\ pc = "long"
    /\ current_chunk = <<>>
    /\ byte_chunks' = byte_chunks_of(text, MAX_CHUNK_SIZE)
    /\ pc' = "chunks"
    /\ UNCHANGED <<incoming, requested_lang, fetches, selections, transcript, idx, text,
                   current_chunk, sent, result, split_vars, select_vars>>

\* for chunk in text.as_bytes().chunks(..): from_utf8(chunk) is Ok, send it.
ChunkSend ==
    /\ pc = "chunks"
    /\ byte_chunks # <<>>
    /\ from_utf8_ok(Head(byte_chunks))
    /\ \E ok \in BOOLEAN :
        /\ Sent("transcript", Head(byte_chunks), ok)
        /\ IF ok
           THEN /\ byte_chunks' = Tail(byte_chunks)
                /\ UNCHANGED <<pc, result>>
           ELSE /\ Failed
                /\ UNCHANGED byte_chunks
    /\ UNCHANGED <<incoming, requested_lang, fetches, selections, transcript, idx, text,
                   current_chunk, split_vars, select_vars>>

\* for chunk in text.as_bytes().chunks(..): from_utf8(chunk) is Err, nothing is sent.
ChunkSkip ==
    /\ pc = "chunks"
    /\ byte_chunks # <<>>
    /\ ~from_utf8_ok(Head(byte_chunks))
    /\ byte_chunks' = Tail(byte_chunks)
    /\ UNCHANGED <<incoming, requested_lang, fetches, selections, transcript, idx, text,
                   current_chunk, pc, sent, result, split_vars, select_vars>>

\* The chunks are exhausted: continue.
ChunksDone ==
    /\ pc = "chunks"
    /\ byte_chunks = <<>>
    /\ pc' = "loop"
    /\ UNCHANGED <<incoming, requested_lang, fetches, selections, send_vars, sent,
                   result, split_vars, select_vars>>

\* Adding this entry would exceed the chunk size: send current_chunk, clear it.
FitFlush ==
    /\ pc = "fit"
    /\ would_exceed(current_chunk, text)
    /\ \E ok \in BOOLEAN :
        /\ Sent("transcript", current_chunk, ok)
        /\ IF ok
           THEN /\ current_chunk' = <<>>
                /\ pc' = "append"
                /\ UNCHANGED result
           ELSE /\ Failed
                /\ UNCHANGED current_chunk
    /\ UNCHANGED <<incoming, requested_lang, fetches, selections, transcript, idx, text,
                   byte_chunks, split_vars, select_vars>>

\* Adding this entry stays within the chunk size.
FitNoFlush ==
    /\ pc = "fit"
    /\ ~would_exceed(current_chunk, text)
    /\ pc' = "append"
    /\ UNCHANGED <<incoming, requested_lang, fetches, selections, send_vars, sent,
                   result, split_vars, select_vars>>

\* Add the text to current_chunk.
AppendText ==
    /\ pc = "append"
    /\ current_chunk' = pushed(current_chunk, text)
    /\ pc' = "loop"
    /\ UNCHANGED <<incoming, requested_lang, fetches, selections, transcript, idx, text,
                   byte_chunks, sent, result, split_vars, select_vars>>

\* Mutant: the remaining text is not sent.
FinalFlush_missing ==
    /\ pc = "final"
    /\ current_chunk # <<>>
    /\ result' = "Ok"
    /\ pc' = "done"
    /\ UNCHANGED <<incoming, requested_lang, fetches, selections, send_vars, sent,
                   split_vars, select_vars>>

\* Send any remaining text, then Ok(()).
FinalFlush ==
    /\ pc = "final"
    /\ current_chunk # <<>>
    /\ \E ok \in BOOLEAN :
        /\ Sent("transcript", current_chunk, ok)
        /\ result' = Returned(ok)
    /\ pc' = "done"
    /\ UNCHANGED <<incoming, requested_lang, fetches, selections, send_vars,
                   split_vars, select_vars>>

\* Nothing remains: Ok(()).
FinalNoFlush ==
    /\ pc = "final"
    /\ current_chunk = <<>>
    /\ result' = "Ok"
    /\ pc' = "done"
    /\ UNCHANGED <<incoming, requested_lang, fetches, selections, send_vars, sent,
                   split_vars, select_vars>>

\* ------------------------------------------------------- specifications

\* One chat message, from its arrival to the handler's return.
Init ==
    /\ incoming \in {<<m>> : m \in Messages}
    /\ pc = "start" /\ requested_lang = "none" /\ fetches = <<>>
    /\ selections = 0 /\ transcript = <<>> /\ idx = 0 /\ text = <<>>
    /\ current_chunk = <<>> /\ byte_chunks = <<>> /\ sent = <<>> /\ result = "none"
    /\ available_langs = <<>> /\ preferred = PREFERRED /\ fallback_lang = "none"
    /\ SplitIdle

Next ==
    \/ HandleNoText
    \/ HandleNoVideoId
    \/ HandleParse
    \/ FetchOk
    \/ FetchLanguageUnavailable
    \/ FetchError
    \/ SendInfo
    \/ RetryOk
    \/ RetryError
    \/ SendError
    \/ SendEmptyNotice
    \/ SendBegin
    \/ NextEntry
    \/ EntriesDone
    \/ LongFlush
    \/ LongNoFlush
    \/ ChunkSend
    \/ ChunkSkip
    \/ ChunksDone
    \/ FitFlush
    \/ FitNoFlush
    \/ AppendText
    \/ FinalFlush
    \/ FinalNoFlush

Spec == Init /\ [][Next]_vars

\* send_transcript on every transcript of at most MaxFragments entries.
Transcripts == SeqsUpTo(FragTexts, MaxFragments)

InitSend ==
    /\ transcript \in Transcripts
    /\ pc = "send_transcript"
    /\ incoming = <<>> /\ requested_lang = "none" /\ fetches = <<>>
    /\ selections = 0 /\ idx = 0 /\ text = <<>>
    /\ current_chunk = <<>> /\ byte_chunks = <<>> /\ sent = <<>> /\ result = "none"
    /\ available_langs = <<>> /\ preferred = PREFERRED /\ fallback_lang = "none"
    /\ SplitIdle

NextSend ==
    \/ SendEmptyNotice
    \/ SendBegin
    \/ NextEntry
    \/ EntriesDone
    \/ LongFlush
    \/ LongNoFlush
    \/ ChunkSend
    \/ ChunkSkip
    \/ ChunksDone
    \/ FitFlush
    \/ FitNoFlush
    \/ AppendText
    \/ FinalFlush
    \/ FinalNoFlush

SpecSend == InitSend /\ [][NextSend]_vars

\* split_safe_utf8 on every text and every budget 0..MaxBudget.
InitSplit ==
    /\ s \in Texts
    /\ max_bytes \in 0..MaxBudget
    /\ chunks = <<>> /\ start = 0 /\ end = 0
    /\ spc = "entry" /\ ret = "none"
    /\ SelectIdle
    /\ HandlerIdle

NextSplit ==
    \/ SplitEntry
    \/ SplitRest
    \/ SplitCandidate
    \/ SplitWalkBack
    \/ SplitTooSmall
    \/ SplitPush
    \/ SplitReturn

SpecSplit == InitSplit /\ [][NextSplit]_vars

\* split_safe_utf8 runs on: a call that can take a step takes one.
SpecSplitFair == SpecSplit /\ WF_vars(NextSplit)

\* select_fallback_language on every pair of lists.
InitSelect ==
    /\ available_langs \in LangLists
    /\ preferred \in LangLists
    /\ fallback_lang = "none"
    /\ incoming = <<>> /\ pc = "select" /\ requested_lang = "none" /\ fetches = <<>>
    /\ selections = 0 /\ transcript = <<>> /\ idx = 0 /\ text = <<>>
    /\ current_chunk = <<>> /\ byte_chunks = <<>> /\ sent = <<>> /\ result = "none"
    /\ SplitIdle

NextSelect == Select

SpecSelect == InitSelect /\ [][NextSelect]_vars

\* ------------------------------------------------------------ properties

\* The transcript messages handed to the sender so far, in order.
TranscriptSends == SelectSeq(sent, LAMBDA m : m.kind = "transcript")

\* The texts of a sequence of sends.
TextsOf(ms) == [i \in 1..Len(ms) |-> ms[i].text]

\* A message with the separators taken out.  No modelled entry holds a
\* space, so every space of a message is an inserted separator.
StripSeparators(bs) == SelectSeq(bs, LAMBDA b : b # SPACE)

\* send_transcript has returned Ok: every send it made succeeded.
SentAll == pc = "done" /\ result = "Ok"

\* C1: every transcript message passed to the sender (a flush of the buffer,
\* a chunk of a long entry, the final flush) has at most MAX_CHUNK_SIZE bytes.
C1_SizeBound ==
    \A i \in 1..Len(sent) :
        sent[i].kind = "transcript" => Len(sent[i].text) <= MAX_CHUNK_SIZE

\* C1 witness: after a long entry went out in chunks, a flush sent a buffer
\* that holds a separator and fills the budget exactly.
C1_Witness ==
    /\ \E i \in 1..Len(sent) : sent[i].at = "chunks"
    /\ \E i \in 1..Len(sent) :
        /\ sent[i].at \in {"fit", "final"}
        /\ Len(sent[i].text) = MAX_CHUNK_SIZE
        /\ \E k \in 1..Len(sent[i].text) : sent[i].text[k] = SPACE

\* C2 (as claimed): when every send succeeded, the messages sent, in order and
\* with the separators removed, are the concatenation of the entries.
C2_Completeness ==
    SentAll /\ transcript # <<>> =>
        StripSeparators(Concat(TextsOf(TranscriptSends))) = Concat(transcript)

\* The slices of s, in order, start at 0, follow one another without gap or
\* overlap, and end at the end of s.
Contiguous(cs) ==
    /\ cs # <<>> => cs[1].lo = 0 /\ cs[Len(cs)].hi = Len(s)
    /\ \A i \in 1..Len(cs) : cs[i].lo <= cs[i].hi
    /\ \A i \in 1..(Len(cs) - 1) : cs[i + 1].lo = cs[i].hi

\* C3: when split_safe_utf8 returns Ok, the chunks are contiguous and
\* non-overlapping slices of s whose concatenation is s; none for an empty s.
C3_RoundTrip ==
    ret = "Ok" =>
        /\ Contiguous(chunks)
        /\ Concat([i \in 1..Len(chunks) |-> ChunkText(chunks[i])]) = s
        /\ (s = <<>> => chunks = <<>>)

\* C3 witness: a successful split into at least three chunks, one of them
\* cut short of the budget by a multi-byte character.
C3_Witness ==
    /\ ret = "Ok"
    /\ Len(chunks) >= 3
    /\ \E i \in 1..(Len(chunks) - 1) : chunks[i].hi - chunks[i].lo < max_bytes

\* The byte length of a slice.
ChunkLen(c) == c.hi - c.lo

\* The code-point boundaries of str from offset i on: the offsets reached by
\* stepping over whole characters.
RECURSIVE BoundariesFrom(_, _)
BoundariesFrom(str, i) ==
    IF i >= Len(str) THEN {Len(str)}
    ELSE {i} \cup BoundariesFrom(str, i + CharLen(str[i + 1][1]))

Boundaries(str) == BoundariesFrom(str, 0)

\* C4: every chunk split_safe_utf8 returns starts and ends on a code-point
\* boundary of s and has between 1 and max_bytes bytes.
C4_BoundarySafety ==
    ret = "Ok" =>
        \A i \in 1..Len(chunks) :
            /\ chunks[i].lo \in Boundaries(s)
            /\ chunks[i].hi \in Boundaries(s)
            /\ from_utf8_ok(ChunkText(chunks[i]))
            /\ 1 <= ChunkLen(chunks[i])
            /\ ChunkLen(chunks[i]) <= max_bytes

\* C4 witness: a successful split in which the candidate end of some chunk
\* fell inside a multi-byte character and was walked back.
C4_Witness ==
    /\ ret = "Ok"
    /\ \E i \in 1..Len(chunks) :
        /\ chunks[i].hi < Len(s)
        /\ chunks[i].lo + max_bytes \notin Boundaries(s)

\* Some character of s is encoded in more than max_bytes bytes.
HasWideChar == \E i \in 1..Len(s) : s[i][2] = 0 /\ CharLen(s[i][1]) > max_bytes

\* C5: for a budget above zero, split_safe_utf8 fails with the "too small"
\* error exactly when some character of s is wider than the budget, and
\* returns Ok otherwise.
C5_FailureIffWideChar ==
    spc = "done" /\ max_bytes > 0 =>
        /\ ret = ERR_SMALL <=> HasWideChar
        /\ ret = "Ok" <=> ~HasWideChar

\* C5 witness: the split failed on a wide character after it had already
\* carved off a chunk.
C5_Witness ==
    /\ spc = "done"
    /\ max_bytes > 0
    /\ ret = ERR_SMALL
    /\ chunks # <<>>

\* C6: with max_bytes = 0, split_safe_utf8 returns the "must be greater than
\* zero" error for every s, without any chunk, and never the "too small" one.
C6_ZeroBudget ==
    max_bytes = 0 /\ spc \notin {"idle", "entry"} =>
        /\ spc = "done"
        /\ ret = ERR_ZERO
        /\ chunks = <<>>

\* C6 witness: the empty string was split with a zero budget.
C6_Witness ==
    /\ spc = "done"
    /\ max_bytes = 0
    /\ s = <<>>
    /\ ret = ERR_ZERO

\* The positions of pref whose code is a member of avail.
PreferredHits(avail, pref) == {i \in 1..Len(pref) : \E j \in 1..Len(avail) : avail[j] = pref[i]}

\* The positions of avail whose code starts with "zh".
ZhHits(avail) == {j \in 1..Len(avail) : starts_with(avail[j], "zh")}

\* The least element of a non-empty set of numbers.
Least(S) == CHOOSE x \in S : \A y \in S : x <= y

\* The language the selection policy names for avail and pref.
ExpectedLang(avail, pref) ==
    IF PreferredHits(avail, pref) # {} THEN pref[Least(PreferredHits(avail, pref))]
    ELSE IF ZhHits(avail) # {} THEN avail[Least(ZhHits(avail))]
    ELSE IF avail # <<>> THEN avail[1]
    ELSE "en"

\* C7: select_fallback_language returns the first code of preferred that is
\* a member of available; else the first code of available starting with
\* "zh"; else the first code of available; else "en".
C7_Selection ==
    pc = "done" /\ selections = 1 /\ fetches = <<>> =>
        fallback_lang = ExpectedLang(available_langs, preferred)

\* C7 witness: two available codes are preferred, and the one returned is the
\* earlier in preferred although it is the later in available.
C7_Witness ==
    /\ pc = "done" /\ selections = 1 /\ fetches = <<>>
    /\ Len(available_langs) >= 2
    /\ contains(preferred, available_langs[1])
    /\ fallback_lang = available_langs[2]

\* The first fetch failed because the requested language is unavailable.
FirstUnavailable == fetches # <<>> /\ fetches[1].outcome = "LanguageUnavailable"

\* The notice about the fallback language was handed to the sender and the
\* send succeeded / failed.
InfoSent(ok) == \E i \in 1..Len(sent) : sent[i].kind = "info" /\ sent[i].ok = ok

\* What C8 says of every request, whatever the sends do: at most two fetches;
\* the selector runs, once, exactly when the first fetch fails with
\* language-unavailable, and its choice is the fallback language; a second
\* fetch only follows such a failure and asks for the fallback language; a failed retry ends the fetching and the error
\* notice is handed to the sender.
C8_RetryShape ==
    /\ Len(fetches) <= 2
    /\ selections = (IF FirstUnavailable THEN 1 ELSE 0)
    /\ pc = "info" => fallback_lang = ExpectedLang(available_langs, PREFERRED)
    /\ Len(fetches) = 2 =>
        /\ FirstUnavailable
        /\ fetches[2].lang = fallback_lang
    /\ (pc = "done" /\ Len(fetches) = 2 /\ fetches[2].outcome # "Ok") =>
        /\ sent[Len(sent)].kind = "fetch_error"
        /\ \A i \in 1..Len(sent) : sent[i].kind # "transcript"

\* C8 (as claimed): whenever the first fetch fails with language-unavailable,
\* the fetch is retried exactly once.
C8_AlwaysRetried ==
    /\ C8_RetryShape
    /\ (pc = "done" /\ FirstUnavailable) => Len(fetches) = 2

\* C8 (amended): the retry happens exactly once provided the notice about the
\* fallback language was sent; when that send fails the handler returns the
\* error after the one fetch.
C8_RetriedOnceAfterNotice ==
    /\ C8_RetryShape
    /\ (pc = "done" /\ FirstUnavailable /\ InfoSent(TRUE)) => Len(fetches) = 2
    /\ (pc = "done" /\ FirstUnavailable /\ InfoSent(FALSE)) =>
        Len(fetches) = 1 /\ result = "Err"

\* C8 witness: the retry failed with language-unavailable again and the
\* handler finished after two fetches, its error notice sent.
C8_Witness ==
    /\ pc = "done"
    /\ Len(fetches) = 2
    /\ fetches[2].outcome = "LanguageUnavailable"
    /\ sent[Len(sent)].kind = "fetch_error"
    /\ result = "Ok"

\* C9: once a send of a transcript message fails, the handler has returned
\* the error and that send is the last call of the sender for the request.
C9_AbortOnSendFailure ==
    \A i \in 1..Len(sent) :
        (sent[i].kind = "transcript" /\ ~sent[i].ok) =>
            /\ i = Len(sent)
            /\ pc = "done"
            /\ result = "Err"

\* C9 witness: the send of a chunk of a long entry failed after an earlier
\* message had been sent, with chunks and entries still to come.
C9_Witness ==
    /\ Len(sent) >= 2
    /\ sent[Len(sent)].at = "chunks"
    /\ ~sent[Len(sent)].ok
    /\ Len(byte_chunks) >= 2
    /\ idx < Len(transcript)

\* The sends of the buffer: the flushes and the final flush.
BufferSends == SelectSeq(sent, LAMBDA m : m.kind = "transcript" /\ m.at # "chunks")

\* The entries that go through the buffer: those within the budget.
Buffered(ts) == SelectSeq(ts, LAMBDA t : ~is_long(t))

\* C10: when every send succeeded, the buffered entries went to the sender
\* exactly once each, in order, and what the buffer held after the last entry
\* was sent as the final message.
C10_BufferDelivered ==
    SentAll /\ transcript # <<>> =>
        /\ StripSeparators(Concat(TextsOf(BufferSends))) = Concat(Buffered(transcript))
        /\ current_chunk # <<>> =>
            /\ sent # <<>>
            /\ sent[Len(sent)].text = current_chunk
            /\ sent[Len(sent)].at = "final"

\* C10 witness: a flush in the loop and the final flush both happened, and
\* the final message joins two entries.
C10_Witness ==
    /\ SentAll
    /\ Len(BufferSends) >= 2
    /\ sent[Len(sent)].at = "final"
    /\ \E k \in 1..Len(current_chunk) : current_chunk[k] = SPACE

\* Every entry of the transcript is empty (a transcript without entries too).
AllEmpty(ts) == \A i \in 1..Len(ts) : ts[i] = <<>>

\* The notice that the transcript is empty was handed to the sender.
EmptyNoticeSent == \E i \in 1..Len(sent) : sent[i].kind = "empty_transcript"

\* C11 (as claimed): for a transcript without entries, or with empty entries
\* only, send_transcript hands the "transcript is empty" notice to the sender
\* and sends no transcript message.
C11_EmptyNotice ==
    (pc = "done" /\ AllEmpty(transcript)) =>
        /\ EmptyNoticeSent
        /\ TranscriptSends = <<>>

\* The sends of the pieces of long entries.
ChunkSends == SelectSeq(sent, LAMBDA m : m.kind = "transcript" /\ m.at = "chunks")

\* The chunks the Safe Splitter returns for the long entries among ts, in order.
RECURSIVE SplitterChunks(_)
SplitterChunks(ts) ==
    IF ts = <<>> THEN <<>>
    ELSE (IF is_long(Head(ts)) THEN split_safe_utf8(Head(ts), MAX_CHUNK_SIZE).chunks ELSE <<>>)
         \o SplitterChunks(Tail(ts))

\* C12 (as claimed): for an entry longer than the budget the buffer is empty
\* (flushed if it held text) when the entry's chunks go out, and the chunks
\* sent are exactly those split_safe_utf8(entry, budget) returns, in order.
C12_LongEntryChunks ==
    /\ pc = "chunks" => current_chunk = <<>>
    /\ (pc = "loop" \/ SentAll) =>
        TextsOf(ChunkSends) = SplitterChunks(SubSeq(transcript, 1, idx))

\* [String]::join(" ")
RECURSIVE Join(_)
Join(ss) ==
    IF ss = <<>> THEN <<>>
    ELSE IF Len(ss) = 1 THEN ss[1]
    ELSE ss[1] \o <<SPACE>> \o Join(Tail(ss))

\* str::trim: without the leading and the trailing whitespace.
RECURSIVE Trim(_)
Trim(bs) ==
    IF bs = <<>> THEN bs
    ELSE IF bs[1] = SPACE THEN Trim(Tail(bs))
    ELSE IF bs[Len(bs)] = SPACE THEN Trim(SubSeq(bs, 1, Len(bs) - 1))
    ELSE bs

\* Every entry is non-empty and within the budget.
AllFit(ts) == \A i \in 1..Len(ts) : ts[i] # <<>> /\ ~is_long(ts[i])

\* C13: for non-empty entries within the budget and every send succeeding,
\* the messages sent joined with a space equal the entries joined with a
\* space, both trimmed.
C13_JoinedMessages ==
    (SentAll /\ transcript # <<>> /\ AllFit(transcript)) =>
        Trim(Join(TextsOf(TranscriptSends))) = Trim(Join(transcript))

\* C13 witness: three entries went out in several messages, the first entry
\* filling the budget alone and the last message joining two entries.
C13_Witness ==
    /\ SentAll
    /\ Len(transcript) = 3
    /\ AllFit(transcript)
    /\ Len(transcript[1]) = MAX_CHUNK_SIZE
    /\ Len(TranscriptSends) >= 2
    /\ \E k \in 1..Len(current_chunk) : current_chunk[k] = SPACE

\* The first fetch failed, and not because the language is unavailable.
FirstFailedOtherwise == fetches # <<>> /\ fetches[1].outcome = "Error"

\* C14: when the first fetch fails with a failure other than
\* language-unavailable, the request makes that one fetch only, does not run
\* the selector, hands exactly one message to the sender, the error notice,
\* and no transcript message.
C14_NoRetryOnOtherFailure ==
    FirstFailedOtherwise =>
        /\ Len(fetches) = 1
        /\ selections = 0
        /\ TranscriptSends = <<>>
        /\ pc = "error" => sent = <<>>
        /\ pc = "done" => (Len(sent) = 1 /\ sent[1].kind = "fetch_error")
        /\ pc \in {"error", "done"}

\* C14 witness: the request ended after one failed fetch and one error notice.
C14_Witness ==
    /\ pc = "done"
    /\ FirstFailedOtherwise
    /\ Len(sent) = 1
    /\ sent[1].kind = "fetch_error"
    /\ sent[1].ok

\* The text holds nothing but whitespace (the empty text too).
AllWhitespace(cs) == \A i \in 1..Len(cs) : cs[i] = " "

\* The handler is about to handle a message whose text is blank.
BlankMessageArrived ==
    /\ pc = "start"
    /\ incoming[1].has_text
    /\ AllWhitespace(incoming[1].text)

\* The handler has ended after one call of the sender, the "Please provide a
\* video ID." notice, without any fetch.
OnlyAskedForVideoId ==
    /\ pc' = "done"
    /\ Len(sent') = 1
    /\ sent'[1].kind = "no_video_id"
    /\ fetches' = <<>>

\* C15 (as claimed): a message with an empty or whitespace-only text gets
\* exactly one reply, the "Please provide a video ID." notice, no fetch and no
\* transcript message, and the handler returns success.
C15_BlankAlwaysOk ==
    [][BlankMessageArrived => (OnlyAskedForVideoId /\ result' = "Ok")]_vars

\* C15 (amended): ... and the handler returns success when the send of the
\* notice succeeds, the send's error when it fails.
C15_BlankAsksForVideoId ==
    [][BlankMessageArrived =>
        (OnlyAskedForVideoId /\ result' = IF sent'[1].ok THEN "Ok" ELSE "Err")]_vars

\* C15 witness: a text of two spaces was answered with the notice and the
\* handler returned success.
C15_Witness ==
    /\ pc = "done"
    /\ incoming = <<[has_text |-> TRUE, text |-> <<" ", " ">>]>>
    /\ Len(sent) = 1
    /\ sent[1].kind = "no_video_id"
    /\ fetches = <<>>
    /\ result = "Ok"

\* The length current_chunk would have with the text appended, the separator
\* counted only when current_chunk holds text.
LengthIfAppended == Len(current_chunk) + Len(text) + (IF current_chunk # <<>> THEN 1 ELSE 0)

\* C16 (as claimed): for an entry within the budget, current_chunk is sent
\* before the append exactly when its length with the text appended, the
\* separator counted only for a non-empty current_chunk, exceeds the budget;
\* otherwise nothing is sent for the entry.
C16_FlushIffOverBudget ==
    [][pc = "fit" =>
        /\ (sent' # sent) <=> (LengthIfAppended > MAX_CHUNK_SIZE)
        /\ (sent' # sent) =>
            (Len(sent') = Len(sent) + 1 /\ sent'[Len(sent')].text = current_chunk)]_vars

\* C17 (as claimed): no message handed to the sender by the accumulator (a
\* flush, a chunk of a long entry, the final flush) is empty.
C17_NoEmptyMessage ==
    \A i \in 1..Len(sent) : sent[i].kind = "transcript" => Len(sent[i].text) >= 1

\* C18: the append keeps what current_chunk held, puts one separator after
\* it exactly when it held text, then the text, and sends nothing; the
\* buffer never begins with a separator.
C18_SeparatorOnAppend ==
    /\ [](current_chunk # <<>> => current_chunk[1] # SPACE)
    /\ [][pc = "append" =>
            /\ SubSeq(current_chunk', 1, Len(current_chunk)) = current_chunk
            /\ Len(current_chunk') = LengthIfAppended
            /\ SubSeq(current_chunk', Len(current_chunk') - Len(text) + 1,
                      Len(current_chunk')) = text
            /\ current_chunk # <<>> => current_chunk'[Len(current_chunk) + 1] = SPACE
            /\ sent' = sent]_vars

\* C18 witness: a second entry was appended behind a separator, the first
\* one having gone into the empty buffer without any.
C18_Witness ==
    /\ pc = "loop"
    /\ idx = 2
    /\ sent = <<>>
    /\ current_chunk = transcript[1] \o <<SPACE>> \o transcript[2]
    /\ transcript[1] # <<>>
    /\ transcript[2] # <<>>

\* The byte length of the character of s that starts at offset i.
CharLenAt(i) == CharLen(s[i + 1][1])

\* C19: in a successful split every chunk but the last is the longest prefix
\* of the remaining text that ends on a boundary within the budget: with the
\* next character of s it would exceed max_bytes.
C19_GreedyChunks ==
    ret = "Ok" =>
        \A i \in 1..(Len(chunks) - 1) :
            /\ chunks[i].hi \in Boundaries(s)
            /\ ChunkLen(chunks[i]) <= max_bytes
            /\ ChunkLen(chunks[i]) + CharLenAt(chunks[i].hi) > max_bytes

\* C19 witness: a successful split whose first chunk stops two bytes short of
\* the budget, before a three byte character, and whose last chunk is
\* shorter than the budget.
C19_Witness ==
    /\ ret = "Ok"
    /\ Len(chunks) >= 2
    /\ ChunkLen(chunks[1]) = max_bytes - 2
    /\ ChunkLen(chunks[Len(chunks)]) < max_bytes

\* C20: split_safe_utf8 terminates; the start offset never decreases and
\* every iteration of the outer loop that does not return increases it;
\* during the walk back the end offset stays between start and the length
\* of s.
C20_Terminates ==
    /\ <>(spc = "done")
    /\ [](spc = "walk" => (0 <= start /\ start <= end /\ end <= Len(s)))
    /\ [][start' >= start /\ ((spc = "walk" /\ spc' = "loop") => start' > start)]_vars

\* C20 witness: past the first chunk, the walk back has come down to start.
C20_Witness ==
    /\ spc = "walk"
    /\ start > 0
    /\ end = start
    /\ max_bytes > 1

====
